---- MODULE Spec2Model ----
(***************************************************************************)
(* Advanced-search query-builder configuration of the OpenMetadata UI      *)
(* (src/unnamed/part_000): the static field registries, the configuration  *)
(* assembler getQbConfigs and the autocomplete adapter.                    *)
(*                                                                         *)
(* JavaScript objects are modelled as TLA+ functions from property names   *)
(* to values, object spread {...a, ...b} as the key-wise merge in which    *)
(* the later operand wins.  JavaScript values of different kinds are       *)
(* tagged records, so that undefined, null and the empty string stay       *)
(* three different values.                                                 *)
(***************************************************************************)
EXTENDS Integers, Sequences, FiniteSets, TLC

VARIABLES
    antd,          \* which build of the query-builder library is loaded
    emptyJsonTree, \* the initial filter tree built at module load
    qbCalls,       \* getQbConfigs calls made so far, each with what it returned
    handles,       \* per call, the objects the returned configuration refers to
    heap,          \* the objects created at module load that have been written to
    adapter,       \* the function autocomplete(...) handed to the widget
    invocations,   \* the adapter's invocations, each with its promise's state
    requests,      \* the suggestQuery requests issued so far, in order
    lastResolved,  \* the latest promise resolution: the response and its result
    form,          \* the mounted glossary form: its props and its state
    onSaveCalls,   \* the payloads the form handed to onSave, in order
    history,       \* what the user and the parent did to the form so far
    profiler,      \* the mounted TableProfilerV1: its props and its state
    tableLoads,    \* its getLatestTableProfileByFqn requests, in order of issue
    testCalls,     \* its fetchAllTests calls, in order of issue
    toasts,        \* the error toasts it has shown
    everViewTest   \* whether its user has had a permission to view tests

vars ==
    <<antd, emptyJsonTree, qbCalls, handles, heap, adapter, invocations,
      requests, lastResolved, form, onSaveCalls, history,
      profiler, tableLoads, testCalls, toasts, everViewTest>>

qbVars == <<antd, emptyJsonTree, qbCalls, handles, heap>>
autoVars == <<adapter, invocations, requests, lastResolved>>
formVars == <<form, onSaveCalls, history>>
profilerVars == <<profiler, tableLoads, testCalls, toasts, everViewTest>>

-----------------------------------------------------------------------------
(* Bounds of the model *)

\* getQbConfigs calls in one behaviour
MaxCalls == 2
\* writes callers make into the configurations they hold
MaxWrites == 1
\* events one mounted form handles in one behaviour
MaxEvents == 4
\* reference rows of the glossary term form
MaxReferances == 2
\* the number of events a term form goes through when its reference rows are
\* followed
MaxReferenceEvents == 8
\* table profile requests one mounted profiler issues in one behaviour
MaxLoads == 1
\* fetchAllTests calls one mounted profiler makes in one behaviour
MaxFetches == 2
\* invocations of the adapter in one behaviour
MaxInvocations == 2
\* elements of one suggestion-service response
MaxResp == 2

-----------------------------------------------------------------------------
(* JavaScript values *)

Undefined == [t |-> "undefined"]
Null == [t |-> "null"]
Str(s) == [t |-> "string", s |-> s]

\* a spread in which the earlier operand wins a clash (the operands swapped)
SpreadEarlierWins(a, b) ==
    [k \in (DOMAIN a) \cup (DOMAIN b) |-> IF k \in DOMAIN a THEN a[k] ELSE b[k]]

\* {...a, ...b}: every key of either object, the later operand's value on a clash
Spread(a, b) ==
    [k \in (DOMAIN a) \cup (DOMAIN b) |-> IF k \in DOMAIN b THEN b[k] ELSE a[k]]

\* the enum members part_000 refers to, and a value outside the enum
\* (types are erased at run time, so getQbConfigs can be handed anything)
SearchIndex ==
    {"TABLE", "TOPIC", "DASHBOARD", "PIPELINE", "MLMODEL",
     "USER", "TEAM", "TAG", "GLOSSARY"}
SearchIndexInputs == SearchIndex \cup {"not_an_index"}

\* the searchIndex argument of autocomplete: SearchIndex | SearchIndex[]
OneIndex(i) == [one |-> i]
ManyIndex(is) == [many |-> is]

-----------------------------------------------------------------------------
(* The autocomplete factory: the closure it returns captures its arguments *)

autocomplete(searchIndex, suggestField) ==
    [searchIndex |-> searchIndex, suggestField |-> suggestField]

-----------------------------------------------------------------------------
(* Field registries *)

mainWidgetProps == [fullWidth |-> TRUE, valueLabel |-> "label.criteria:"]

commonQueryBuilderFields ==
    ("deleted" :> [label |-> "Deleted", type |-> "boolean", defaultValue |-> TRUE])
    @@
    ("owner" :>
        [label |-> "Owner",
         type |-> "!struct",
         subfields |->
            [name |->
                [label |-> "username",
                 type |-> "select",
                 mainWidgetProps |-> mainWidgetProps,
                 fieldSettings |->
                    [asyncFetch |->
                        autocomplete(ManyIndex(<<"USER", "TEAM">>), Undefined)]],
             displayName |->
                [label |-> "name",
                 type |-> "text",
                 mainWidgetProps |-> mainWidgetProps],
             type |->
                [label |-> "type",
                 type |-> "select",
                 mainWidgetProps |-> mainWidgetProps,
                 fieldSettings |->
                    [listValues |->
                        <<[value |-> "user", title |-> "User"],
                          [value |-> "team", title |-> "Team"]>>]]]])
    @@
    ("tags.tagFQN" :>
        [label |-> "Tags",
         type |-> "select",
         mainWidgetProps |-> mainWidgetProps,
         fieldSettings |->
            [asyncFetch |->
                autocomplete(ManyIndex(<<"TAG", "GLOSSARY">>), Undefined)]])
    @@
    ("tier.tagFQN" :>
        [label |-> "Tier",
         type |-> "select",
         mainWidgetProps |-> mainWidgetProps,
         fieldSettings |->
            [asyncFetch |->
                autocomplete(ManyIndex(<<"TAG", "GLOSSARY">>), Undefined)]])

\* a service mapping keyed like a common field
serviceFieldsKeyedOwner ==
    ("owner" :>
        [label |-> "Service",
         type |-> "!struct",
         subfields |->
            [deleted |->
                [label |-> "deleted", type |-> "boolean", defaultValue |-> TRUE]]])

\* a service group whose subfields were left out
serviceFieldsWithoutSubfields ==
    ("service" :> [label |-> "Service", type |-> "!struct"])

serviceQueryBuilderFields ==
    ("service" :>
        [label |-> "Service",
         type |-> "!struct",
         subfields |->
            [name |->
                [label |-> "name",
                 type |-> "select",
                 mainWidgetProps |-> mainWidgetProps,
                 fieldSettings |->
                    [asyncFetch |->
                        autocomplete(OneIndex("TABLE"), Str("SERVICE"))]],
             deleted |->
                [label |-> "deleted", type |-> "boolean", defaultValue |-> TRUE]]])

tableQueryBuilderFields ==
    ("database" :>
        [label |-> "Database",
         type |-> "!struct",
         subfields |->
            [name |->
                [label |-> "name",
                 type |-> "select",
                 mainWidgetProps |-> mainWidgetProps,
                 fieldSettings |->
                    [asyncFetch |->
                        autocomplete(OneIndex("TABLE"), Str("DATABASE"))]],
             deleted |->
                [label |-> "deleted", type |-> "boolean", defaultValue |-> TRUE]]])
    @@
    ("databaseSchema" :>
        [label |-> "Database Schema",
         type |-> "!struct",
         subfields |->
            [name |->
                [label |-> "name",
                 type |-> "select",
                 mainWidgetProps |-> mainWidgetProps,
                 fieldSettings |->
                    [asyncFetch |->
                        autocomplete(OneIndex("TABLE"), Str("SCHEMA"))]],
             deleted |->
                [label |-> "deleted", type |-> "boolean", defaultValue |-> TRUE]]])
    @@
    ("name" :>
        [label |-> "Table",
         type |-> "select",
         mainWidgetProps |-> mainWidgetProps,
         fieldSettings |->
            [asyncFetch |-> autocomplete(OneIndex("TABLE"), Str("ROOT"))]])
    @@
    ("columns" :>
        [label |-> "Column",
         type |-> "!struct",
         subfields |->
            [name |->
                [label |-> "name",
                 type |-> "select",
                 mainWidgetProps |-> mainWidgetProps,
                 fieldSettings |->
                    [asyncFetch |->
                        autocomplete(OneIndex("TABLE"), Str("COLUMN"))]],
             dataType |->
                [label |-> "data type",
                 type |-> "text",
                 mainWidgetProps |-> mainWidgetProps],
             constraint |->
                [label |-> "constraint",
                 type |-> "text",
                 mainWidgetProps |-> mainWidgetProps]]])

-----------------------------------------------------------------------------
(* The library's base configuration.  AntdConfig is code of a third-party *)
(* library; what getQbConfigs reads of it is its shape (types, widgets,   *)
(* operators, settings).  The content part_000 overrides is left open:    *)
(* the library may or may not set valueSources and excludeOperators on a  *)
(* type, and may set them to anything.                                    *)

ShippedLibrary == [sets |-> FALSE, valueSources |-> <<>>, excludeOperators |-> <<>>]

LibraryVariants ==
    { ShippedLibrary,
      [sets |-> TRUE, valueSources |-> <<"value", "field", "func">>,
       excludeOperators |-> <<>>],
      [sets |-> TRUE, valueSources |-> <<"field">>,
       excludeOperators |-> <<"proximity">>] }

LibraryType(type, v) ==
    IF v.sets
    THEN Spread(type, [valueSources |-> v.valueSources,
                       excludeOperators |-> v.excludeOperators])
    ELSE type

AntdConfig(v) ==
    [conjunctions |-> [AND |-> [label |-> "And"], OR |-> [label |-> "Or"]],
     types |->
        [text |->
            LibraryType(
                [defaultOperator |-> "equal",
                 mainWidget |-> "text",
                 widgets |->
                    [text |-> [operators |->
                                <<"equal", "not_equal", "like", "not_like">>],
                     field |-> [operators |-> <<"equal", "not_equal">>]]], v),
         select |->
            LibraryType(
                [defaultOperator |-> "select_equals",
                 mainWidget |-> "select",
                 widgets |->
                    [select |-> [operators |->
                                <<"select_equals", "select_not_equals">>],
                     multiselect |-> [operators |->
                                <<"select_any_in", "select_not_any_in">>]]], v),
         multiselect |->
            LibraryType(
                [defaultOperator |-> "multiselect_equals",
                 widgets |->
                    [multiselect |-> [operators |->
                                <<"multiselect_equals",
                                  "multiselect_not_equals">>]]], v),
         boolean |->
            LibraryType(
                [defaultOperator |-> "equal",
                 widgets |->
                    [boolean |-> [operators |-> <<"equal", "not_equal">>]]], v)],
     widgets |->
        [text |-> [type |-> "text", valueSrc |-> "value"],
         select |-> [type |-> "select", valueSrc |-> "value"],
         multiselect |-> [type |-> "multiselect", valueSrc |-> "value"],
         boolean |-> [type |-> "boolean", valueSrc |-> "value"]],
     operators |->
        [equal |-> [label |-> "=="],
         not_equal |-> [label |-> "!="],
         like |-> [label |-> "Like", elasticSearchQueryType |-> "regexp"],
         not_like |-> [label |-> "Not like"],
         is_null |-> [label |-> "Is null"],
         is_not_null |-> [label |-> "Is not null"],
         select_equals |-> [label |-> "=="],
         select_not_equals |-> [label |-> "!="]],
     settings |->
        [showLabels |-> FALSE,
         canReorder |-> TRUE,
         showNot |-> TRUE,
         renderSize |-> "small"]]

-----------------------------------------------------------------------------
(* Overriding default configurations *)

\* const BaseConfig = AntdConfig as BasicConfig
BaseConfig == AntdConfig(antd)

initialConfigWithoutFields ==
    Spread(BaseConfig,
        [types |->
            Spread(BaseConfig.types,
                [multiselect |->
                    Spread(BaseConfig.types.multiselect,
                        [widgets |->
                            Spread(BaseConfig.types.multiselect.widgets,
                                [text |-> [operators |-> <<"like", "not_like">>]]),
                         excludeOperators |-> <<"is_null", "is_not_null">>,
                         valueSources |-> <<"value">>]),
                 select |->
                    Spread(BaseConfig.types.select,
                        [widgets |->
                            Spread(BaseConfig.types.select.widgets,
                                [text |-> [operators |-> <<"like", "not_like">>]]),
                         excludeOperators |-> <<"is_null", "is_not_null">>,
                         valueSources |-> <<"value">>]),
                 text |->
                    Spread(BaseConfig.types.text,
                        [valueSources |-> <<"value">>])]),
         widgets |->
            Spread(BaseConfig.widgets,
                [multiselect |->
                    Spread(BaseConfig.widgets.multiselect,
                        [showSearch |-> TRUE,
                         showCheckboxes |-> TRUE,
                         useAsyncSearch |-> TRUE,
                         useLoadMore |-> FALSE]),
                 select |->
                    Spread(BaseConfig.widgets.select,
                        [showSearch |-> TRUE,
                         showCheckboxes |-> TRUE,
                         useAsyncSearch |-> TRUE,
                         useLoadMore |-> FALSE]),
                 text |-> BaseConfig.widgets.text]),
         operators |->
            Spread(BaseConfig.operators,
                [like |->
                    Spread(BaseConfig.operators.like,
                        [elasticSearchQueryType |-> "wildcard"])]),
         settings |->
            Spread(BaseConfig.settings,
                [showLabels |-> TRUE,
                 canReorder |-> FALSE,
                 renderSize |-> "medium",
                 fieldLabel |-> "label.field-plural:",
                 operatorLabel |-> "label.condition:",
                 showNot |-> FALSE,
                 valueLabel |-> "label.criteria:",
                 renderButton |-> "renderAdvanceSearchButtons"])])

-----------------------------------------------------------------------------
(* Builds search index specific configuration for the query builder *)

\* the common spread left out of the service-backed cases
getQbConfigsServiceOnly(searchIndex) ==
    IF searchIndex \in {"MLMODEL", "PIPELINE", "DASHBOARD", "TOPIC"}
    THEN Spread(initialConfigWithoutFields,
            [fields |-> serviceQueryBuilderFields])
    ELSE IF searchIndex = "TABLE"
    THEN Spread(initialConfigWithoutFields,
            [fields |-> Spread(serviceQueryBuilderFields,
                               tableQueryBuilderFields)])
    ELSE Spread(initialConfigWithoutFields,
            [fields |-> commonQueryBuilderFields])

\* the default case given the service-backed mapping
getQbConfigsDefaultService(searchIndex) ==
    IF searchIndex = "TABLE"
    THEN Spread(initialConfigWithoutFields,
            [fields |-> Spread(Spread(commonQueryBuilderFields,
                                      serviceQueryBuilderFields),
                               tableQueryBuilderFields)])
    ELSE Spread(initialConfigWithoutFields,
            [fields |-> Spread(commonQueryBuilderFields,
                               serviceQueryBuilderFields)])

\* the TABLE case without its table spread
getQbConfigsTableAsService(searchIndex) ==
    IF searchIndex \in {"MLMODEL", "PIPELINE", "DASHBOARD", "TOPIC", "TABLE"}
    THEN Spread(initialConfigWithoutFields,
            [fields |-> Spread(commonQueryBuilderFields,
                               serviceQueryBuilderFields)])
    ELSE Spread(initialConfigWithoutFields,
            [fields |-> commonQueryBuilderFields])

\* the library's configuration returned without the overrides
getQbConfigsBaseConfig(searchIndex) ==
    Spread(BaseConfig, [fields |-> commonQueryBuilderFields])

\* the DASHBOARD case falling through to the TABLE mapping
getQbConfigsDashboardAsTable(searchIndex) ==
    IF searchIndex \in {"MLMODEL", "PIPELINE", "TOPIC"}
    THEN Spread(initialConfigWithoutFields,
            [fields |-> Spread(commonQueryBuilderFields,
                               serviceQueryBuilderFields)])
    ELSE IF searchIndex \in {"DASHBOARD", "TABLE"}
    THEN Spread(initialConfigWithoutFields,
            [fields |-> Spread(Spread(commonQueryBuilderFields,
                                      serviceQueryBuilderFields),
                               tableQueryBuilderFields)])
    ELSE Spread(initialConfigWithoutFields,
            [fields |-> commonQueryBuilderFields])

getQbConfigs(searchIndex) ==
    CASE searchIndex = "MLMODEL" ->
            Spread(initialConfigWithoutFields,
                [fields |-> Spread(commonQueryBuilderFields,
                                   serviceQueryBuilderFields)])
      [] searchIndex = "PIPELINE" ->
            Spread(initialConfigWithoutFields,
                [fields |-> Spread(commonQueryBuilderFields,
                                   serviceQueryBuilderFields)])
      [] searchIndex = "DASHBOARD" ->
            Spread(initialConfigWithoutFields,
                [fields |-> Spread(commonQueryBuilderFields,
                                   serviceQueryBuilderFields)])
      [] searchIndex = "TABLE" ->
            Spread(initialConfigWithoutFields,
                [fields |-> Spread(Spread(commonQueryBuilderFields,
                                          serviceQueryBuilderFields),
                                   tableQueryBuilderFields)])
      [] searchIndex = "TOPIC" ->
            Spread(initialConfigWithoutFields,
                [fields |-> Spread(commonQueryBuilderFields,
                                   serviceQueryBuilderFields)])
      [] OTHER ->
            Spread(initialConfigWithoutFields,
                [fields |-> commonQueryBuilderFields])

-----------------------------------------------------------------------------
(* The initial filter tree.  QbUtils.uuid is the library's generator: each *)
(* call returns an identifier no earlier call returned; which one is open. *)

UuidPool == {"u1", "u2", "u3"}

\* what a QbUtils.uuid() call may return after the identifiers in `used`
uuid(used) == UuidPool \ used

emptyRule ==
    [type |-> "rule",
     properties |->
        [field |-> Null, operator |-> Null, value |-> <<>>, valueSrc |-> <<>>]]

\* the object literal, given the results of its three uuid() calls
JsonTree(rootId, groupId, ruleId) ==
    [id |-> rootId,
     type |-> "group",
     properties |-> [conjunction |-> "AND", not |-> FALSE],
     children1 |->
        (groupId :>
            [type |-> "group",
             properties |-> [conjunction |-> "AND", not |-> FALSE],
             children1 |-> (ruleId :> emptyRule)])]

\* one identifier generated once and used for every node
EmptyJsonTreesOneId == { JsonTree(id, id, id) : id \in uuid({}) }

EmptyJsonTrees ==
    UNION { UNION { { JsonTree(rootId, groupId, ruleId) :
                        ruleId \in uuid({rootId, groupId}) } :
                    groupId \in uuid({rootId}) } :
            rootId \in uuid({}) }

-----------------------------------------------------------------------------
(* The autocomplete adapter *)

\* the functions autocomplete(...) that the registries hand to the widget
Descriptors(fields) ==
    UNION { IF "subfields" \in DOMAIN fields[k]
            THEN {fields[k].subfields[s] : s \in DOMAIN fields[k].subfields}
            ELSE {fields[k]} : k \in DOMAIN fields }

AsyncFetches(fields) ==
    { d.fieldSettings.asyncFetch :
        d \in { e \in Descriptors(fields) :
                    /\ "fieldSettings" \in DOMAIN e
                    /\ "asyncFetch" \in DOMAIN e.fieldSettings } }

Adapters ==
    AsyncFetches(commonQueryBuilderFields)
        \cup AsyncFetches(serviceQueryBuilderFields)
        \cup AsyncFetches(tableQueryBuilderFields)

\* what the widget passes as `search`: nothing, null, or the typed text
SearchInputs == {Undefined, Null, Str(""), Str("al")}

\* search ?? '*': only undefined and null are replaced
NullishCoalesce(search, default) ==
    IF search = Undefined \/ search = Null THEN default ELSE search.s

\* the argument of suggestQuery
suggestQueryRequest(closure, search) ==
    [query |-> NullishCoalesce(search, "*"),
     searchIndex |-> closure.searchIndex,
     field |-> closure.suggestField,
     fetchSource |-> FALSE]

\* The service's answer: an array of option objects, each with a `text`.
\* An object is its reference and its text.  The array is parsed from the
\* HTTP response body, so each element is an object of its own: its
\* reference is its place in the array.
Texts == {"alpha", "beta"}

IsResponse(r) == \A i \in 1..Len(r) : r[i].ref = i

Responses ==
    UNION { { r \in [1..n -> [ref : 1..n, text : Texts]] : IsResponse(r) } :
            n \in 0..MaxResp }

\* lodash uniq compares with SameValueZero: two objects are the same value
\* only when they are the same object
SameValueZero(a, b) == a.ref = b.ref

RECURSIVE uniqFrom(_, _)
uniqFrom(array, i) ==
    IF i > Len(array)
    THEN <<>>
    ELSE IF \E j \in 1..(i - 1) : SameValueZero(array[j], array[i])
         THEN uniqFrom(array, i + 1)
         ELSE <<array[i]>> \o uniqFrom(array, i + 1)

uniq(array) == uniqFrom(array, 1)

\* hasMore computed from the size of the result
onFulfilledHasMoreBySize(resp) ==
    [values |-> [i \in 1..Len(uniq(resp)) |->
                    [value |-> uniq(resp)[i].text, title |-> uniq(resp)[i].text]],
     hasMore |-> Len(uniq(resp)) > 0]

\* the title read from a property the option objects do not have
onFulfilledNoTitle(resp) ==
    [values |-> [i \in 1..Len(uniq(resp)) |->
                    [value |-> uniq(resp)[i].text, title |-> ""]],
     hasMore |-> FALSE]

\* .then((resp) => ({ values: uniq(resp).map(...), hasMore: false }))
onFulfilled(resp) ==
    [values |-> [i \in 1..Len(uniq(resp)) |->
                    [value |-> uniq(resp)[i].text, title |-> uniq(resp)[i].text]],
     hasMore |-> FALSE]

-----------------------------------------------------------------------------
(* The glossary forms, AddGlossary and AddGlossaryTerm.  The text of an    *)
(* input is the sequence of its characters.                                *)

WhiteSpace == {" ", "\t"}

RECURSIVE trimStart(_)
trimStart(text) ==
    IF text # <<>> /\ Head(text) \in WhiteSpace
    THEN trimStart(Tail(text))
    ELSE text

RECURSIVE trimEnd(_)
trimEnd(text) ==
    IF text # <<>> /\ text[Len(text)] \in WhiteSpace
    THEN trimEnd(SubSeq(text, 1, Len(text) - 1))
    ELSE text

\* String.prototype.trim
trim(text) == trimEnd(trimStart(text))

RECURSIVE splitFrom(_, _, _)
splitFrom(text, piece, separator) ==
    IF text = <<>> THEN <<piece>>
    ELSE IF Head(text) = separator
    THEN <<piece>> \o splitFrom(Tail(text), <<>>, separator)
    ELSE splitFrom(Tail(text), Append(piece, Head(text)), separator)

\* String.prototype.split
split(text, separator) == splitFrom(text, <<>>, separator)

\* value || undefined, for a string that may be missing
OrUndefined(value) ==
    IF value = Undefined \/ value.s = <<>> THEN Undefined ELSE value

\* what the user types into the name and the synonyms inputs
NameInputs == { <<>>, <<" ">>, <<"a", " ">> }
SynonymInputs == { <<>>, <<"x", ",", "y">> }
\* what the user types into a cell of a reference row
ReferenceInputs == { <<>>, <<"r">> }
\* the same with a second text, to tell two filled rows apart
ReferenceCellInputs == ReferenceInputs \cup { <<"s">> }
\* what the markdown editor holds when the form is saved
EditorContents == { Undefined, Str(<<>>), Str(<<"d">>) }

alice == [id |-> "u1", name |-> "alice", type |-> "user"]
bob == [id |-> "u2", name |-> "bob", type |-> "user"]
\* what the reviewer modal hands to its onSave
ReviewerSelections == { <<>>, <<alice>>, <<alice, bob>> }

\* the glossaryData and parentGlossaryData props of a term form
GlossaryDataInputs ==
    { [id |-> "g1", reviewers |-> <<>>], [id |-> "g1", reviewers |-> <<bob>>] }
ParentGlossaryDataInputs == { Undefined, [id |-> "t0"] }

SaveStates == {"initial", "waiting", "success"}

\* getCurrentUserId()
CurrentUserId == "me"

\* AddGlossary after its first render
AddGlossaryForm(allowAccess) ==
    [component |-> "AddGlossary",
     allowAccess |-> allowAccess,
     saveState |-> "initial",
     showErrorMsg |-> [name |-> FALSE],
     name |-> <<>>,
     showRevieweModal |-> FALSE,
     reviewer |-> <<>>]

\* AddGlossaryTerm after its first render and the effect on glossaryData
AddGlossaryTermForm(allowAccess, glossaryData, parentGlossaryData) ==
    [component |-> "AddGlossaryTerm",
     allowAccess |-> allowAccess,
     saveState |-> "initial",
     glossaryData |-> glossaryData,
     parentGlossaryData |-> parentGlossaryData,
     showErrorMsg |-> [name |-> FALSE],
     name |-> <<>>,
     showRevieweModal |-> FALSE,
     showRelatedTermsModal |-> FALSE,
     reviewer |-> IF Len(glossaryData.reviewers) > 0
                  THEN glossaryData.reviewers
                  ELSE <<>>,
     synonyms |-> <<>>,
     referances |-> <<>>]

MountedForms ==
    { AddGlossaryForm(allowAccess) : allowAccess \in BOOLEAN }
    \cup
    { AddGlossaryTermForm(allowAccess, glossaryData, parentGlossaryData) :
        allowAccess \in BOOLEAN,
        glossaryData \in GlossaryDataInputs,
        parentGlossaryData \in ParentGlossaryDataInputs }

IsTerm(f) == f.component = "AddGlossaryTerm"

\* the inputs whose onChange is handleValidation
ValidatedInputs(f) == IF IsTerm(f) THEN {"name", "synonyms"} ELSE {"name"}

\* a change handler that leaves the error flag as it finds it
handleValidationKeepsError(f, eleName, value) ==
    IF ~f.allowAccess THEN f
    ELSE IF eleName = "name" THEN [f EXCEPT !.name = value]
    ELSE IF eleName = "synonyms" /\ IsTerm(f) THEN [f EXCEPT !.synonyms = value]
    ELSE f

handleValidation(f, eleName, value) ==
    IF ~f.allowAccess THEN f
    ELSE
        LET name == IF eleName = "name" THEN FALSE ELSE f.showErrorMsg.name
            set == IF eleName = "name" THEN [f EXCEPT !.name = value]
                   ELSE IF eleName = "synonyms" /\ IsTerm(f)
                   THEN [f EXCEPT !.synonyms = value]
                   ELSE f
        IN [set EXCEPT !.showErrorMsg = Spread(f.showErrorMsg, [name |-> name])]

\* a check of the raw text
errMsgUntrimmed(name) == [name |-> name = <<>>]

\* the errMsg object validateForm builds
errMsg(name) == [name |-> trim(name) = <<>>]

\* what validateForm returns
validateForm(name) == TRUE \notin { errMsg(name)[k] : k \in DOMAIN errMsg(name) }

\* the references that have both cells filled, the latest row first
updatedReferenceLatestFirst(f) ==
    LET filled == SelectSeq(f.referances,
                    LAMBDA ref : ref.endpoint # <<>> /\ ref.name # <<>>)
    IN [i \in 1..Len(filled) |-> filled[Len(filled) + 1 - i]]

\* the references that have both cells filled
updatedReference(f) ==
    SelectSeq(f.referances, LAMBDA ref : ref.endpoint # <<>> /\ ref.name # <<>>)

reviewers(f) ==
    [i \in 1..Len(f.reviewer) |->
        [id |-> f.reviewer[i].id, type |-> f.reviewer[i].type]]

\* the payload handleSave builds, given what the editor holds
CreateGlossary(f, content) ==
    [name |-> f.name,
     displayName |-> f.name,
     description |-> OrUndefined(content),
     reviewers |-> reviewers(f),
     owner |-> [id |-> CurrentUserId, type |-> "user"]]

CreateGlossaryTerm(f, content) ==
    [name |-> f.name,
     displayName |-> f.name,
     description |-> OrUndefined(content),
     reviewers |-> reviewers(f),
     references |-> IF Len(updatedReference(f)) > 0
                    THEN updatedReference(f)[1]
                    ELSE Undefined,
     parent |-> IF f.parentGlossaryData # Undefined
                THEN [type |-> "glossaryTerm", id |-> f.parentGlossaryData.id]
                ELSE Undefined,
     synonyms |-> IF f.synonyms # <<>>
                  THEN [t |-> "array", items |-> split(f.synonyms, ",")]
                  ELSE Undefined,
     glossary |-> [id |-> f.glossaryData.id, type |-> "glossary"]]

\* getSaveButton renders a button with onClick only in this case
SaveButtonShown(f) == f.allowAccess /\ f.saveState \notin {"waiting", "success"}

\* handleOptionRemove: by id in AddGlossary, by name in AddGlossaryTerm
RemovalKeys(f) ==
    { IF IsTerm(f) THEN f.reviewer[i].name ELSE f.reviewer[i].id :
        i \in 1..Len(f.reviewer) }

handleOptionRemove(f, key) ==
    SelectSeq(f.reviewer,
        LAMBDA option : (IF IsTerm(f) THEN option.name ELSE option.id) # key)

\* Array.prototype.splice(i, 1) on a copy, with rows counted from 1
splice(rows, i) == SubSeq(rows, 1, i - 1) \o SubSeq(rows, i + 1, Len(rows))

IsBlank(text) == \A i \in 1..Len(text) : text[i] \in WhiteSpace

NoHistory ==
    [steps |-> 0,
     budget |-> MaxEvents,
     last |-> [kind |-> "mount"],
     lastSave |-> "none",
     nameEventSince |-> FALSE,
     nameEditSince |-> FALSE]

\* the history after the form went through `event`
After(event) ==
    [steps |-> history.steps + 1,
     budget |-> history.budget,
     last |-> event,
     lastSave |->
        IF event.kind = "handleSave"
        THEN (IF IsBlank(form.name) THEN "blank" ELSE "filled")
        ELSE history.lastSave,
     nameEventSince |->
        IF event.kind = "handleSave" THEN FALSE
        ELSE IF event.kind = "handleValidation" /\ event.eleName = "name"
        THEN TRUE
        ELSE history.nameEventSince,
     nameEditSince |->
        IF event.kind = "handleSave" THEN FALSE
        ELSE IF /\ event.kind = "handleValidation"
                /\ event.eleName = "name"
                /\ event.allowAccess
        THEN TRUE
        ELSE history.nameEditSince]

-----------------------------------------------------------------------------
(* The table profiler panel, TableProfilerV1 *)

SUMMARY == "Summary"
DATA_QUALITY == "Data Quality"

\* Include.Deleted and Include.NonDeleted
IncludeDeleted == "deleted"
IncludeNonDeleted == "non-deleted"

PermissionKeys ==
    {"ViewAll", "ViewBasic", "ViewTests", "ViewDataProfile", "EditAll", "EditTests"}

Permissions(granted) == [k \in PermissionKeys |-> k \in granted]

\* the permissions prop: nothing, the profile only, the tests only, everything
PermissionInputs ==
    { Permissions({}),
      Permissions({"ViewDataProfile", "EditTests"}),
      Permissions({"ViewTests"}),
      Permissions({"ViewAll", "EditAll"}) }

\* the tableFqn prop
TableFqnInputs == {"", "db.t"}

\* a check that also lets the profile permission through
viewTestOrProfile(permissions) ==
    permissions.ViewAll \/ permissions.ViewBasic \/ permissions.ViewTests
        \/ permissions.ViewDataProfile

viewTest(permissions) ==
    permissions.ViewAll \/ permissions.ViewBasic \/ permissions.ViewTests

viewProfiler(permissions) ==
    permissions.ViewAll \/ permissions.ViewBasic \/ permissions.ViewDataProfile

editTest(permissions) == permissions.EditAll \/ permissions.EditTests

\* The constant of profiler.constant and updateTestResults of
\* DataQualityAndProfilerUtils are defined outside the files at hand.  They
\* are kept uninterpreted: a summary is the constant it was copied from and
\* the statuses updateTestResults was called with on it, in call order.
INITIAL_TEST_RESULT_SUMMARY ==
    [of |-> "INITIAL_TEST_RESULT_SUMMARY", updates |-> <<>>]

updateTestResults(results, testCaseStatus) ==
    [results EXCEPT !.updates = Append(@, testCaseStatus)]

\* the table a profile request for fqn answers with
TableOf(fqn) == [fullyQualifiedName |-> fqn]

\* test cases the service may return: of the table or of one of its columns,
\* with or without a result
tableSuccess ==
    [name |-> "rows", entityFQN |-> "db.t",
     testCaseResult |-> [testCaseStatus |-> "Success"]]
tableNoResult == [name |-> "cols", entityFQN |-> "db.t"]
tableFailed ==
    [name |-> "size", entityFQN |-> "db.t",
     testCaseResult |-> [testCaseStatus |-> "Failed"]]
columnFailed ==
    [name |-> "nulls", entityFQN |-> "db.t.c",
     testCaseResult |-> [testCaseStatus |-> "Failed"]]
columnSuccess ==
    [name |-> "unique", entityFQN |-> "db.t.c",
     testCaseResult |-> [testCaseStatus |-> "Success"]]

\* what getListTestCase may resolve with
TestData ==
    { <<>>,
      <<tableSuccess, columnFailed, tableNoResult, columnSuccess>>,
      <<columnSuccess, tableFailed>> }

\* test.testCaseResult?.testCaseStatus
testCaseStatus(test) ==
    IF "testCaseResult" \in DOMAIN test
    THEN Str(test.testCaseResult.testCaseStatus)
    ELSE Undefined

\* table?.fullyQualifiedName
fullyQualifiedName(table) ==
    IF table = Undefined THEN Undefined ELSE Str(table.fullyQualifiedName)

\* the argument fetchAllTests hands to getListTestCase
ListTestCaseParams(p, params) ==
    Spread(
        [fields |-> "testCaseResult,entityLink,testDefinition,testSuite",
         entityLink |->
            [generateEntityLink |->
                IF p.table = Undefined THEN "" ELSE p.table.fullyQualifiedName],
         includeAllTests |-> TRUE,
         limit |-> "API_RES_MAX_SIZE",
         include |-> IF p.deleted THEN IncludeDeleted ELSE IncludeNonDeleted],
        params)

\* a fetchAllTests call up to its await: the request and what it closed over
fetchAllTests(p, params) ==
    [request |-> ListTestCaseParams(p, params),
     table |-> p.table,
     state |-> "pending",
     data |-> <<>>]

\* the data.forEach loop of fetchAllTests that files every test under the table
RECURSIVE forEachAllOfTable(_, _, _, _)
forEachAllOfTable(data, table, tableTests, columnTestsCase) ==
    IF data = <<>>
    THEN [tableTests |-> tableTests, columnTests |-> columnTestsCase]
    ELSE LET test == Head(data) IN
         forEachAllOfTable(Tail(data), table,
            [tests |-> Append(tableTests.tests, test),
             results |-> updateTestResults(tableTests.results,
                            IF testCaseStatus(test) = Undefined
                            THEN ""
                            ELSE testCaseStatus(test).s)],
            columnTestsCase)

\* the data.forEach loop of fetchAllTests
RECURSIVE forEach(_, _, _, _)
forEach(data, table, tableTests, columnTestsCase) ==
    IF data = <<>>
    THEN [tableTests |-> tableTests, columnTests |-> columnTestsCase]
    ELSE LET test == Head(data) IN
         IF Str(test.entityFQN) = fullyQualifiedName(table)
         THEN forEach(Tail(data), table,
                [tests |-> Append(tableTests.tests, test),
                 results |-> updateTestResults(tableTests.results,
                                IF testCaseStatus(test) = Undefined
                                THEN ""
                                ELSE testCaseStatus(test).s)],
                columnTestsCase)
         ELSE forEach(Tail(data), table, tableTests,
                Append(columnTestsCase, test))

\* what a fetchAllTests call sets once its request resolved with data
fetched(call, data) ==
    forEach(data, call.table,
        [tests |-> <<>>, results |-> INITIAL_TEST_RESULT_SUMMARY], <<>>)

\* a filter that ignores the selected type
getFilterTestCaseAnyType(p) ==
    SelectSeq(p.tableTests.tests \o p.columnTests,
        LAMBDA data :
            \/ p.selectedTestCaseStatus = ""
            \/ testCaseStatus(data) = Str(p.selectedTestCaseStatus))

getFilterTestCase(p) ==
    LET tests == IF p.selectedTestType = "Table" THEN p.tableTests.tests
                 ELSE IF p.selectedTestType = "Column" THEN p.columnTests
                 ELSE p.tableTests.tests \o p.columnTests
    IN SelectSeq(tests,
        LAMBDA data :
            \/ p.selectedTestCaseStatus = ""
            \/ testCaseStatus(data) = Str(p.selectedTestCaseStatus))

\* the options of the Status and Type selects, and a value that is no option
TestCaseStatusInputs == {"", "Success", "Failed"}
TestTypeInputs == {"", "Table", "Column", "Other"}

\* TableProfilerV1 after its first render and its effects
MountedProfiler(tableFqn, permissions) ==
    [tableFqn |-> tableFqn,
     permissions |-> permissions,
     table |-> Undefined,
     settingModalVisible |-> FALSE,
     columnTests |-> <<>>,
     tableTests |-> [tests |-> <<>>, results |-> INITIAL_TEST_RESULT_SUMMARY],
     activeTab |-> SUMMARY,
     selectedTestCaseStatus |-> "",
     selectedTestType |-> "",
     deleted |-> FALSE,
     isTestCaseLoading |-> FALSE]

\* fetchLatestProfilerData up to its await
fetchLatestProfilerData(tableFqn) == [fqn |-> tableFqn, state |-> "pending"]

HasTestPermission(permissions) ==
    \E k \in {"ViewAll", "ViewBasic", "ViewTests"} : permissions[k]

-----------------------------------------------------------------------------
(* Object identity.  A spread copies property values, and a property whose *)
(* value is an object holds a reference: the object getQbConfigs returns   *)
(* and its `fields` object are new at each call, while every property of   *)
(* the two refers to an object created once, at module load.  An object    *)
(* created at load is named by the constant that holds it and its key.     *)

RegistryOf(key) ==
    IF key \in DOMAIN tableQueryBuilderFields THEN "tableQueryBuilderFields"
    ELSE IF key \in DOMAIN serviceQueryBuilderFields
    THEN "serviceQueryBuilderFields"
    ELSE "commonQueryBuilderFields"

\* the object a caller assigns to a property of its configuration
Literal == <<"literal", "assigned">>

\* an object read through a reference: a write to a shared object has set
\* one more property on it, an assignment has put another object in its place
ReadAt(object, address) ==
    IF address = Literal THEN [assigned |-> TRUE]
    ELSE IF address \in heap THEN Spread(object, [written |-> TRUE])
    ELSE object

\* the references a configuration built by spreading holds
RefsOf(config) ==
    [top |-> [k \in (DOMAIN config) \ {"fields"} |->
                <<"initialConfigWithoutFields", k>>],
     fields |-> [f \in DOMAIN config.fields |-> <<RegistryOf(f), f>>]]

\* what reading a configuration through its references gives
View(config, refs) ==
    [k \in DOMAIN config |->
        IF k = "fields"
        THEN [f \in DOMAIN config.fields |->
                ReadAt(config.fields[f], refs.fields[f])]
        ELSE ReadAt(config[k], refs.top[k])]

\* what the caller of call n reads now
ViewOf(n) == View(qbCalls[n].config, handles[n])

\* what a caller can write through configuration n: one of its own
\* properties or entries of its `fields` (own), or the object behind one
Targets(n) ==
    { [own |-> o, in |-> "config", key |-> k] :
        o \in BOOLEAN, k \in DOMAIN handles[n].top }
    \cup
    { [own |-> o, in |-> "fields", key |-> f] :
        o \in BOOLEAN, f \in DOMAIN handles[n].fields }

Referred(n, target) ==
    IF target.in = "config"
    THEN handles[n].top[target.key]
    ELSE handles[n].fields[target.key]

Writes ==
    Cardinality(heap)
    + Cardinality({ <<n, t>> \in { <<m, u>> \in (1..Len(handles)) \X
                        UNION { Targets(m) : m \in 1..Len(handles) } :
                            u \in Targets(m) } :
                    Referred(n, t) = Literal })

-----------------------------------------------------------------------------
(* State machine *)

\* the module is loaded and no adapter has been invoked; the library build
\* decides what getQbConfigs returns
InitQb ==
    /\ antd \in LibraryVariants
    /\ emptyJsonTree \in EmptyJsonTrees
    /\ qbCalls = <<>>
    /\ handles = <<>>
    /\ heap = {}
    /\ adapter = Undefined
    /\ invocations = <<>>
    /\ requests = <<>>
    /\ lastResolved = Null
    /\ form = Null
    /\ onSaveCalls = <<>>
    /\ history = NoHistory
    /\ profiler = Null
    /\ tableLoads = <<>>
    /\ testCalls = <<>>
    /\ toasts = 0
    /\ everViewTest = FALSE

\* callers that keep and write to the configurations they were given
InitShare ==
    /\ antd = ShippedLibrary
    /\ emptyJsonTree = JsonTree("u1", "u2", "u3")
    /\ qbCalls = <<>>
    /\ handles = <<>>
    /\ heap = {}
    /\ adapter = Undefined
    /\ invocations = <<>>
    /\ requests = <<>>
    /\ lastResolved = Null
    /\ form = Null
    /\ onSaveCalls = <<>>
    /\ history = NoHistory
    /\ profiler = Null
    /\ tableLoads = <<>>
    /\ testCalls = <<>>
    /\ toasts = 0
    /\ everViewTest = FALSE

\* a glossary form has been mounted; it reads nothing of the query builder
InitForm ==
    /\ antd = ShippedLibrary
    /\ emptyJsonTree = JsonTree("u1", "u2", "u3")
    /\ qbCalls = <<>>
    /\ handles = <<>>
    /\ heap = {}
    /\ adapter = Undefined
    /\ invocations = <<>>
    /\ requests = <<>>
    /\ lastResolved = Null
    /\ form \in MountedForms
    /\ onSaveCalls = <<>>
    /\ history = NoHistory
    /\ profiler = Null
    /\ tableLoads = <<>>
    /\ testCalls = <<>>
    /\ toasts = 0
    /\ everViewTest = FALSE

\* a term form has been mounted for a user who may edit it
InitReferences ==
    /\ antd = ShippedLibrary
    /\ emptyJsonTree = JsonTree("u1", "u2", "u3")
    /\ qbCalls = <<>>
    /\ handles = <<>>
    /\ heap = {}
    /\ adapter = Undefined
    /\ invocations = <<>>
    /\ requests = <<>>
    /\ lastResolved = Null
    /\ form = AddGlossaryTermForm(TRUE, [id |-> "g1", reviewers |-> <<>>], Undefined)
    /\ onSaveCalls = <<>>
    /\ history = [NoHistory EXCEPT !.budget = MaxReferenceEvents]
    /\ profiler = Null
    /\ tableLoads = <<>>
    /\ testCalls = <<>>
    /\ toasts = 0
    /\ everViewTest = FALSE

\* a table profiler has been mounted and its effects have run: the table
\* profile has been asked for when there is a tableFqn
InitProfiler ==
    /\ antd = ShippedLibrary
    /\ emptyJsonTree = JsonTree("u1", "u2", "u3")
    /\ qbCalls = <<>>
    /\ handles = <<>>
    /\ heap = {}
    /\ adapter = Undefined
    /\ invocations = <<>>
    /\ requests = <<>>
    /\ lastResolved = Null
    /\ form = Null
    /\ onSaveCalls = <<>>
    /\ history = NoHistory
    /\ profiler \in { MountedProfiler(tableFqn, permissions) :
                        tableFqn \in TableFqnInputs,
                        permissions \in PermissionInputs }
    /\ tableLoads = IF profiler.tableFqn # ""
                    THEN <<fetchLatestProfilerData(profiler.tableFqn)>>
                    ELSE <<>>
    /\ testCalls = <<>>
    /\ toasts = 0
    /\ everViewTest = HasTestPermission(profiler.permissions)

\* the widget holds one of the functions the registries created; the adapter
\* reads nothing of the library configuration, which is the shipped build
InitAuto ==
    /\ antd = ShippedLibrary
    /\ emptyJsonTree = JsonTree("u1", "u2", "u3")
    /\ qbCalls = <<>>
    /\ handles = <<>>
    /\ heap = {}
    /\ adapter \in Adapters
    /\ invocations = <<>>
    /\ requests = <<>>
    /\ lastResolved = Null
    /\ form = Null
    /\ onSaveCalls = <<>>
    /\ history = NoHistory
    /\ profiler = Null
    /\ tableLoads = <<>>
    /\ testCalls = <<>>
    /\ toasts = 0
    /\ everViewTest = FALSE

\* a memo that is not keyed by the category
GetQbConfigsMemo(searchIndex) ==
    /\ Len(qbCalls) < MaxCalls
    /\ LET config == IF qbCalls = <<>>
                     THEN getQbConfigs(searchIndex)
                     ELSE qbCalls[1].config
       IN /\ qbCalls' = Append(qbCalls,
                            [searchIndex |-> searchIndex,
                             outcome |-> "returned",
                             config |-> config])
          /\ handles' = Append(handles, RefsOf(config))
    /\ UNCHANGED <<formVars, profilerVars, antd, emptyJsonTree, heap, autoVars>>

\* a caller asks for the configuration of searchIndex
GetQbConfigs(searchIndex) ==
    /\ Len(qbCalls) < MaxCalls
    /\ LET config == getQbConfigs(searchIndex)
       IN /\ qbCalls' = Append(qbCalls,
                            [searchIndex |-> searchIndex,
                             outcome |-> "returned",
                             config |-> View(config, RefsOf(config))])
          /\ handles' = Append(handles, RefsOf(config))
    /\ UNCHANGED <<formVars, profilerVars, antd, emptyJsonTree, heap, autoVars>>

\* a caller writes through the configuration call n returned: it assigns a
\* new object to a property (own), or sets a property of the object behind it
Write(n, target) ==
    /\ Writes < MaxWrites
    /\ target \in Targets(n)
    /\ IF target.own
       THEN /\ handles' =
                [handles EXCEPT ![n] =
                    IF target.in = "config"
                    THEN [@ EXCEPT !.top[target.key] = Literal]
                    ELSE [@ EXCEPT !.fields[target.key] = Literal]]
            /\ heap' = heap
       ELSE /\ Referred(n, target) # Literal
            /\ heap' = heap \cup {Referred(n, target)}
            /\ handles' = handles
    /\ UNCHANGED <<formVars, profilerVars, antd, emptyJsonTree, qbCalls, autoVars>>

\* an adapter that remembers the queries it has sent and sends none twice
InvokeCached(search) ==
    /\ Len(invocations) < MaxInvocations
    /\ requests' =
            IF \E k \in 1..Len(requests) :
                    requests[k] = suggestQueryRequest(adapter, search)
            THEN requests
            ELSE Append(requests, suggestQueryRequest(adapter, search))
    /\ invocations' = Append(invocations,
                        [search |-> search, request |-> "sent",
                         promise |-> "pending"])
    /\ UNCHANGED <<formVars, profilerVars, qbVars, adapter, lastResolved>>

\* an adapter that aborts the requests in flight when a new one is issued
InvokeCancelsPrevious(search) ==
    /\ Len(invocations) < MaxInvocations
    /\ requests' = Append(requests, suggestQueryRequest(adapter, search))
    /\ invocations' =
            Append([k \in 1..Len(invocations) |->
                        IF invocations[k].promise = "pending"
                        THEN [invocations[k] EXCEPT !.request = "failed",
                                                    !.promise = "rejected"]
                        ELSE invocations[k]],
                   [search |-> search, request |-> "sent",
                    promise |-> "pending"])
    /\ UNCHANGED <<formVars, profilerVars, qbVars, adapter, lastResolved>>

\* the widget invokes the adapter: one suggestQuery request, a pending promise
Invoke(search) ==
    /\ Len(invocations) < MaxInvocations
    /\ requests' = Append(requests, suggestQueryRequest(adapter, search))
    /\ invocations' = Append(invocations,
                        [search |-> search, request |-> "sent",
                         promise |-> "pending"])
    /\ UNCHANGED <<formVars, profilerVars, qbVars, adapter, lastResolved>>

\* the service answers the request of invocation i: its promise resolves
Resolve(i, resp) ==
    /\ invocations[i].promise = "pending"
    /\ invocations' = [invocations EXCEPT ![i].request = "answered",
                                          ![i].promise = "resolved"]
    /\ lastResolved' = [invocation |-> i, resp |-> resp,
                        result |-> onFulfilled(resp)]
    /\ UNCHANGED <<formVars, profilerVars, qbVars, adapter, requests>>

\* a failure caught and turned into an empty list
RejectSwallowed(i) ==
    /\ invocations[i].promise = "pending"
    /\ invocations' = [invocations EXCEPT ![i].request = "failed",
                                          ![i].promise = "resolved"]
    /\ lastResolved' = [invocation |-> i, resp |-> <<>>,
                        result |-> onFulfilled(<<>>)]
    /\ UNCHANGED <<formVars, profilerVars, qbVars, adapter, requests>>

\* the request of invocation i fails: .then has no rejection handler, so the
\* promise it returns is rejected and onFulfilled does not run
Reject(i) ==
    /\ invocations[i].promise = "pending"
    /\ invocations' = [invocations EXCEPT ![i].request = "failed",
                                          ![i].promise = "rejected"]
    /\ UNCHANGED <<formVars, profilerVars, qbVars, adapter, requests, lastResolved>>

\* the parent renders the form again with other props
SetProps(allowAccess, saveState) ==
    /\ history.steps < history.budget
    /\ <<allowAccess, saveState>> # <<form.allowAccess, form.saveState>>
    /\ form' = [form EXCEPT !.allowAccess = allowAccess,
                            !.saveState = saveState]
    /\ history' = After([kind |-> "props"])
    /\ UNCHANGED <<qbVars, autoVars, profilerVars, onSaveCalls>>

\* the user types into the name input or the synonyms input
HandleValidation(eleName, value) ==
    /\ history.steps < history.budget
    /\ eleName \in ValidatedInputs(form)
    /\ form' = handleValidation(form, eleName, value)
    /\ history' = After([kind |-> "handleValidation",
                         eleName |-> eleName,
                         value |-> value,
                         allowAccess |-> form.allowAccess])
    /\ UNCHANGED <<qbVars, autoVars, profilerVars, onSaveCalls>>

\* the user clicks Save
HandleSave(content) ==
    /\ history.steps < history.budget
    /\ SaveButtonShown(form)
    /\ form' = [form EXCEPT !.showErrorMsg = errMsg(form.name)]
    /\ onSaveCalls' =
        IF validateForm(form.name)
        THEN Append(onSaveCalls,
                IF IsTerm(form)
                THEN CreateGlossaryTerm(form, content)
                ELSE CreateGlossary(form, content))
        ELSE onSaveCalls
    /\ history' = After([kind |-> "handleSave"])
    /\ UNCHANGED <<qbVars, autoVars, profilerVars>>

\* the user opens the reviewer modal
OpenReviewerModal ==
    /\ history.steps < history.budget
    /\ form' = [form EXCEPT !.showRevieweModal = TRUE]
    /\ history' = After([kind |-> "openReviewerModal"])
    /\ UNCHANGED <<qbVars, autoVars, profilerVars, onSaveCalls>>

OnReviewerModalCancel ==
    /\ history.steps < history.budget
    /\ form.showRevieweModal
    /\ form' = [form EXCEPT !.showRevieweModal = FALSE]
    /\ history' = After([kind |-> "onReviewerModalCancel"])
    /\ UNCHANGED <<qbVars, autoVars, profilerVars, onSaveCalls>>

HandleReviewerSave(reviewer) ==
    /\ history.steps < history.budget
    /\ form.showRevieweModal
    /\ form' = [form EXCEPT !.reviewer = reviewer, !.showRevieweModal = FALSE]
    /\ history' = After([kind |-> "handleReviewerSave"])
    /\ UNCHANGED <<qbVars, autoVars, profilerVars, onSaveCalls>>

HandleOptionRemove(key) ==
    /\ history.steps < history.budget
    /\ key \in RemovalKeys(form)
    /\ form' = [form EXCEPT !.reviewer = handleOptionRemove(form, key)]
    /\ history' = After([kind |-> "handleOptionRemove"])
    /\ UNCHANGED <<qbVars, autoVars, profilerVars, onSaveCalls>>

\* the user opens the related terms modal of a term form
OpenRelatedTermsModal ==
    /\ history.steps < history.budget
    /\ IsTerm(form)
    /\ form' = [form EXCEPT !.showRelatedTermsModal = TRUE]
    /\ history' = After([kind |-> "openRelatedTermsModal"])
    /\ UNCHANGED <<qbVars, autoVars, profilerVars, onSaveCalls>>

\* onRelatedTermsModalCancel, which handleRelatedTermsSave only calls
OnRelatedTermsModalCancel ==
    /\ history.steps < history.budget
    /\ IsTerm(form)
    /\ form.showRelatedTermsModal
    /\ form' = [form EXCEPT !.showRelatedTermsModal = FALSE]
    /\ history' = After([kind |-> "onRelatedTermsModalCancel"])
    /\ UNCHANGED <<qbVars, autoVars, profilerVars, onSaveCalls>>

AddReferenceFields ==
    /\ history.steps < history.budget
    /\ IsTerm(form)
    /\ Len(form.referances) < MaxReferances
    /\ form' = [form EXCEPT !.referances =
                    Append(@, [name |-> <<>>, endpoint |-> <<>>])]
    /\ history' = After([kind |-> "addReferenceFields"])
    /\ UNCHANGED <<qbVars, autoVars, profilerVars, onSaveCalls>>

RemoveReferenceFields(i) ==
    /\ history.steps < history.budget
    /\ IsTerm(form)
    /\ i \in 1..Len(form.referances)
    /\ form' = [form EXCEPT !.referances = splice(@, i)]
    /\ history' = After([kind |-> "removeReferenceFields", index |-> i])
    /\ UNCHANGED <<qbVars, autoVars, profilerVars, onSaveCalls>>

HandleReferenceFieldsChange(i, field, value) ==
    /\ history.steps < history.budget
    /\ IsTerm(form)
    /\ i \in 1..Len(form.referances)
    /\ form' = [form EXCEPT !.referances[i][field] = value]
    /\ history' = After([kind |-> "handleReferenceFieldsChange"])
    /\ UNCHANGED <<qbVars, autoVars, profilerVars, onSaveCalls>>

\* the parent renders the profiler for another table
SetTableFqn(tableFqn) ==
    /\ tableFqn # profiler.tableFqn
    /\ profiler' = [profiler EXCEPT !.tableFqn = tableFqn]
    /\ IF tableFqn # ""
       THEN /\ Len(tableLoads) < MaxLoads
            /\ tableLoads' = Append(tableLoads, fetchLatestProfilerData(tableFqn))
       ELSE tableLoads' = tableLoads
    /\ UNCHANGED <<qbVars, autoVars, formVars, testCalls, toasts, everViewTest>>

\* the parent renders the profiler with other permissions
SetPermissions(permissions) ==
    /\ permissions # profiler.permissions
    /\ LET p == [profiler EXCEPT !.permissions = permissions]
           effect == /\ viewTest(permissions) # viewTest(profiler.permissions)
                     /\ p.table # Undefined
                     /\ viewTest(permissions)
       IN IF effect
          THEN /\ Len(testCalls) < MaxFetches
               /\ testCalls' = Append(testCalls, fetchAllTests(p, <<>>))
               /\ profiler' = [p EXCEPT !.isTestCaseLoading = TRUE]
          ELSE /\ testCalls' = testCalls
               /\ profiler' = p
    /\ everViewTest' = (everViewTest \/ HasTestPermission(permissions))
    /\ UNCHANGED <<qbVars, autoVars, formVars, tableLoads, toasts>>

\* a table profile request is answered: setTable, then the effect on table
LoadResolves(i) ==
    /\ tableLoads[i].state = "pending"
    /\ tableLoads' = [tableLoads EXCEPT ![i].state = "resolved"]
    /\ LET p == [profiler EXCEPT !.table = TableOf(tableLoads[i].fqn)]
       IN IF viewTest(p.permissions)
          THEN /\ Len(testCalls) < MaxFetches
               /\ testCalls' = Append(testCalls, fetchAllTests(p, <<>>))
               /\ profiler' = [p EXCEPT !.isTestCaseLoading = TRUE]
          ELSE /\ testCalls' = testCalls
               /\ profiler' = p
    /\ UNCHANGED <<qbVars, autoVars, formVars, toasts, everViewTest>>

\* a table profile request fails
LoadRejects(i) ==
    /\ tableLoads[i].state = "pending"
    /\ tableLoads' = [tableLoads EXCEPT ![i].state = "rejected"]
    /\ toasts' = toasts + 1
    /\ UNCHANGED <<qbVars, autoVars, formVars, profiler, testCalls, everViewTest>>

\* the user picks a tab that is not disabled
HandleTabChange(value) ==
    /\ value # profiler.activeTab
    /\ \/ value = SUMMARY /\ viewProfiler(profiler.permissions)
       \/ value = DATA_QUALITY /\ viewTest(profiler.permissions)
    /\ profiler' = [profiler EXCEPT !.activeTab = value]
    /\ UNCHANGED <<qbVars, autoVars, formVars, tableLoads, testCalls, toasts,
                   everViewTest>>

\* the Settings button opens the modal, the modal closes itself
HandleSettingModal(value) ==
    /\ value # profiler.settingModalVisible
    /\ value => /\ profiler.activeTab = SUMMARY
                /\ editTest(profiler.permissions)
    /\ profiler' = [profiler EXCEPT !.settingModalVisible = value]
    /\ UNCHANGED <<qbVars, autoVars, formVars, tableLoads, testCalls, toasts,
                   everViewTest>>

\* the user flips the Deleted Tests switch
HandleDeletedTestCaseClick(value) ==
    /\ profiler.activeTab = DATA_QUALITY
    /\ value = ~profiler.deleted
    /\ Len(testCalls) < MaxFetches
    /\ testCalls' = Append(testCalls,
            fetchAllTests(profiler,
                [include |-> IF value THEN IncludeDeleted ELSE IncludeNonDeleted]))
    /\ profiler' = [profiler EXCEPT !.deleted = value,
                                    !.isTestCaseLoading = TRUE]
    /\ UNCHANGED <<qbVars, autoVars, formVars, tableLoads, toasts, everViewTest>>

\* the data quality tab reports that a test was updated
OnTestUpdate ==
    /\ profiler.activeTab = DATA_QUALITY
    /\ Len(testCalls) < MaxFetches
    /\ testCalls' = Append(testCalls, fetchAllTests(profiler, <<>>))
    /\ profiler' = [profiler EXCEPT !.isTestCaseLoading = TRUE]
    /\ UNCHANGED <<qbVars, autoVars, formVars, tableLoads, toasts, everViewTest>>

HandleTestCaseStatusChange(value) ==
    /\ profiler.activeTab = DATA_QUALITY
    /\ profiler' = IF value # profiler.selectedTestCaseStatus
                   THEN [profiler EXCEPT !.selectedTestCaseStatus = value]
                   ELSE profiler
    /\ UNCHANGED <<qbVars, autoVars, formVars, tableLoads, testCalls, toasts,
                   everViewTest>>

HandleTestCaseTypeChange(value) ==
    /\ profiler.activeTab = DATA_QUALITY
    /\ profiler' = IF value # profiler.selectedTestType
                   THEN [profiler EXCEPT !.selectedTestType = value]
                   ELSE profiler
    /\ UNCHANGED <<qbVars, autoVars, formVars, tableLoads, testCalls, toasts,
                   everViewTest>>

\* the request of call i is answered with data: the rest of the try block,
\* then the finally block
FetchResolves(i, data) ==
    /\ testCalls[i].state = "pending"
    /\ testCalls' = [testCalls EXCEPT ![i].state = "resolved", ![i].data = data]
    /\ profiler' =
        [profiler EXCEPT !.tableTests = fetched(testCalls[i], data).tableTests,
                         !.columnTests = fetched(testCalls[i], data).columnTests,
                         !.isTestCaseLoading = FALSE]
    /\ UNCHANGED <<qbVars, autoVars, formVars, tableLoads, toasts, everViewTest>>

\* the request of call i fails: the catch block, then the finally block
FetchRejects(i) ==
    /\ testCalls[i].state = "pending"
    /\ testCalls' = [testCalls EXCEPT ![i].state = "rejected"]
    /\ toasts' = toasts + 1
    /\ profiler' = [profiler EXCEPT !.isTestCaseLoading = FALSE]
    /\ UNCHANGED <<qbVars, autoVars, formVars, tableLoads, everViewTest>>

NextQb == \E searchIndex \in SearchIndexInputs : GetQbConfigs(searchIndex)

NextAuto ==
    \/ \E search \in SearchInputs : Invoke(search)
    \/ \E i \in 1..Len(invocations) : \E resp \in Responses : Resolve(i, resp)
    \/ \E i \in 1..Len(invocations) : Reject(i)

NextShare ==
    \/ \E searchIndex \in SearchIndexInputs : GetQbConfigs(searchIndex)
    \/ \E n \in 1..Len(handles) : \E target \in Targets(n) : Write(n, target)

NextForm ==
    \/ \E allowAccess \in BOOLEAN : \E saveState \in SaveStates :
            SetProps(allowAccess, saveState)
    \/ \E eleName \in {"name", "synonyms"} :
        \E value \in NameInputs \cup SynonymInputs :
            HandleValidation(eleName, value)
    \/ \E content \in EditorContents : HandleSave(content)
    \/ OpenReviewerModal
    \/ OnReviewerModalCancel
    \/ \E reviewer \in ReviewerSelections : HandleReviewerSave(reviewer)
    \/ \E key \in RemovalKeys(form) : HandleOptionRemove(key)
    \/ OpenRelatedTermsModal
    \/ OnRelatedTermsModalCancel
    \/ AddReferenceFields
    \/ \E i \in 1..MaxReferances : RemoveReferenceFields(i)
    \/ \E i \in 1..MaxReferances : \E field \in {"name", "endpoint"} :
        \E value \in ReferenceInputs :
            HandleReferenceFieldsChange(i, field, value)

\* the reference rows of a term form, its name and its Save button
NextReferences ==
    \/ \E value \in NameInputs : HandleValidation("name", value)
    \/ HandleSave(Undefined)
    \/ AddReferenceFields
    \/ \E i \in 1..MaxReferances : RemoveReferenceFields(i)
    \/ \E i \in 1..MaxReferances : \E field \in {"name", "endpoint"} :
        \E value \in ReferenceCellInputs :
            HandleReferenceFieldsChange(i, field, value)

\* every prop change, user action and answer; what the tests are is left out
NextProfiler ==
    \/ \E tableFqn \in TableFqnInputs : SetTableFqn(tableFqn)
    \/ \E permissions \in PermissionInputs : SetPermissions(permissions)
    \/ \E i \in 1..Len(tableLoads) : LoadResolves(i)
    \/ \E i \in 1..Len(tableLoads) : LoadRejects(i)
    \/ \E value \in {SUMMARY, DATA_QUALITY} : HandleTabChange(value)
    \/ \E value \in BOOLEAN : HandleSettingModal(value)
    \/ \E value \in BOOLEAN : HandleDeletedTestCaseClick(value)
    \/ OnTestUpdate
    \/ \E value \in {"Failed"} : HandleTestCaseStatusChange(value)
    \/ \E value \in {"Table"} : HandleTestCaseTypeChange(value)
    \/ \E i \in 1..Len(testCalls) : FetchResolves(i, <<>>)
    \/ \E i \in 1..Len(testCalls) : FetchRejects(i)

\* the life of the fetchAllTests calls: what starts one and what ends one
NextTests ==
    \/ \E i \in 1..Len(tableLoads) : LoadResolves(i)
    \/ \E i \in 1..Len(tableLoads) : LoadRejects(i)
    \/ \E value \in {SUMMARY, DATA_QUALITY} : HandleTabChange(value)
    \/ \E value \in BOOLEAN : HandleDeletedTestCaseClick(value)
    \/ OnTestUpdate
    \/ \E i \in 1..Len(testCalls) : \E data \in TestData : FetchResolves(i, data)
    \/ \E i \in 1..Len(testCalls) : FetchRejects(i)

\* the filters of the data quality tab over the tests that were fetched
NextFilter ==
    \/ \E i \in 1..Len(tableLoads) : LoadResolves(i)
    \/ \E value \in {SUMMARY, DATA_QUALITY} : HandleTabChange(value)
    \/ \E value \in TestCaseStatusInputs : HandleTestCaseStatusChange(value)
    \/ \E value \in TestTypeInputs : HandleTestCaseTypeChange(value)
    \/ \E i \in 1..Len(testCalls) : \E data \in TestData : FetchResolves(i, data)

\* the configuration assembler and its callers
SpecQb == InitQb /\ [][NextQb]_vars

\* the configuration assembler and callers that write to what it returned
SpecShare == InitShare /\ [][NextShare]_vars

\* the adapter, the widget that invokes it and the suggestion service
SpecAuto == InitAuto /\ [][NextAuto]_vars

\* a glossary form, its user and the parent that renders it
SpecForm == InitForm /\ [][NextForm]_vars

SpecReferences == InitReferences /\ [][NextReferences]_vars

\* a table profiler, its user, its parent and the services it calls
SpecProfiler == InitProfiler /\ [][NextProfiler]_vars

\* a table profiler and the requests for its tests
SpecTests == InitProfiler /\ [][NextTests]_vars

\* a table profiler and the filters of its data quality tab
SpecFilter == InitProfiler /\ [][NextFilter]_vars

-----------------------------------------------------------------------------
(* Properties of the configuration assembler (checked under SpecQb) *)

Contains(seq, x) == \E i \in 1..Len(seq) : seq[i] = x

\* whether `fields` has a descriptor at a path: <<key>> or <<key, subfield>>
HasPath(fields, path) ==
    /\ path[1] \in DOMAIN fields
    /\ Len(path) = 2 =>
        /\ "subfields" \in DOMAIN fields[path[1]]
        /\ path[2] \in DOMAIN fields[path[1]].subfields

CommonPaths ==
    { <<"deleted">>, <<"owner", "name">>, <<"owner", "displayName">>,
      <<"owner", "type">>, <<"tags.tagFQN">>, <<"tier.tagFQN">> }
ServicePaths == { <<"service", "name">>, <<"service", "deleted">> }
TablePaths ==
    { <<"database", "name">>, <<"databaseSchema", "name">>, <<"name">>,
      <<"columns", "name">>, <<"columns", "dataType">>,
      <<"columns", "constraint">> }
TableKeys == {"database", "databaseSchema", "name", "columns"}
RecognizedIndexes == {"MLMODEL", "PIPELINE", "DASHBOARD", "TABLE", "TOPIC"}
ServiceOnlyIndexes == {"MLMODEL", "PIPELINE", "DASHBOARD", "TOPIC"}

Returned == { qbCalls[i] : i \in 1..Len(qbCalls) }

\* C1: for every SearchIndex value handed to getQbConfigs, the returned
\* `fields` holds every key of commonQueryBuilderFields (deleted, owner with
\* the subfields name, displayName and type, tags.tagFQN, tier.tagFQN), each
\* bound to the descriptor the common mapping binds it to.
C1_CommonFieldsAlwaysPresent ==
    \A c \in Returned :
        /\ {"deleted", "owner", "tags.tagFQN", "tier.tagFQN"}
                \subseteq DOMAIN c.config.fields
        /\ \A p \in CommonPaths : HasPath(c.config.fields, p)
        /\ DOMAIN c.config.fields["owner"].subfields
                = {"name", "displayName", "type"}
        /\ \A k \in DOMAIN commonQueryBuilderFields :
                c.config.fields[k] = commonQueryBuilderFields[k]

C1_Witness ==
    /\ \E c \in Returned : c.searchIndex = "TABLE"
    /\ \E c \in Returned : c.searchIndex = "not_an_index"

\* C2: for every input that is not MLMODEL, PIPELINE, DASHBOARD, TABLE or
\* TOPIC, getQbConfigs returns (it does not throw) a configuration whose
\* `fields` is exactly the common mapping, and every such input gets the
\* same configuration.
C2_UnrecognizedGetsCommonOnly ==
    \A c \in Returned :
        c.searchIndex \notin RecognizedIndexes =>
            /\ c.outcome = "returned"
            /\ c.config.fields = commonQueryBuilderFields
            /\ DOMAIN c.config.fields
                    = {"deleted", "owner", "tags.tagFQN", "tier.tagFQN"}
            /\ \A d \in Returned :
                    d.searchIndex \notin RecognizedIndexes => d.config = c.config

C2_Witness ==
    /\ Len(qbCalls) = 2
    /\ qbCalls[1].searchIndex = "not_an_index"
    /\ qbCalls[2].searchIndex = "USER"

\* C5: getQbConfigs(SearchIndex.TABLE) returns `fields` with descriptors at
\* database.name, databaseSchema.name, name, columns.name, columns.dataType
\* and columns.constraint, at every common path and at service.name and
\* service.deleted.
C5_TableHasTableCommonAndServicePaths ==
    \A c \in Returned :
        c.searchIndex = "TABLE" =>
            \A p \in TablePaths \cup CommonPaths \cup ServicePaths :
                HasPath(c.config.fields, p)

C5_Witness == \E c \in Returned : c.searchIndex = "TABLE"

\* C6: for DASHBOARD, MLMODEL, PIPELINE and TOPIC, getQbConfigs returns
\* `fields` with every common path and the service paths, and with none of
\* the table keys database, databaseSchema, name, columns.
C6_ServiceBackedHasNoTableKeys ==
    \A c \in Returned :
        c.searchIndex \in ServiceOnlyIndexes =>
            /\ \A p \in CommonPaths \cup ServicePaths :
                    HasPath(c.config.fields, p)
            /\ TableKeys \cap DOMAIN c.config.fields = {}

C6_Witness ==
    /\ \E c \in Returned : c.searchIndex = "DASHBOARD"
    /\ \E c \in Returned : c.searchIndex = "TOPIC"

\* C7: in the configuration returned for every category, the types
\* multiselect and select both exclude the operators is_null and
\* is_not_null and have valueSources equal to exactly <<"value">>.
C7_SelectTypesLiteralValuesOnly ==
    \A c \in Returned :
        \A ty \in {"multiselect", "select"} :
            /\ {"excludeOperators", "valueSources"}
                    \subseteq DOMAIN c.config.types[ty]
            /\ Contains(c.config.types[ty].excludeOperators, "is_null")
            /\ Contains(c.config.types[ty].excludeOperators, "is_not_null")
            /\ c.config.types[ty].valueSources = <<"value">>

C7_Witness ==
    /\ antd.sets
    /\ antd.valueSources = <<"field">>
    /\ \E c \in Returned : c.searchIndex = "TABLE"
    /\ \E c \in Returned : c.searchIndex = "GLOSSARY"

-----------------------------------------------------------------------------
(* Shape of the field mappings and of the operator overrides *)

\* the partial mappings getQbConfigs merges for a category
MergedParts(searchIndex) ==
    CASE searchIndex \in ServiceOnlyIndexes ->
            <<commonQueryBuilderFields, serviceQueryBuilderFields>>
      [] searchIndex = "TABLE" ->
            <<commonQueryBuilderFields, serviceQueryBuilderFields,
              tableQueryBuilderFields>>
      [] OTHER -> <<commonQueryBuilderFields>>

RECURSIVE SumOfSizes(_)
SumOfSizes(parts) ==
    IF parts = <<>> THEN 0
    ELSE Cardinality(DOMAIN Head(parts)) + SumOfSizes(Tail(parts))

\* C15: no descriptor is overwritten by a later union step: the top-level
\* key sets of the three mappings are pairwise disjoint, and the merged
\* mapping of every returned configuration has as many keys as the partial
\* mappings merged for its category have together, each key bound to the
\* descriptor of the mapping that declares it.
C15_UnionOverwritesNothing ==
    /\ DOMAIN commonQueryBuilderFields \cap DOMAIN serviceQueryBuilderFields = {}
    /\ DOMAIN commonQueryBuilderFields \cap DOMAIN tableQueryBuilderFields = {}
    /\ DOMAIN serviceQueryBuilderFields \cap DOMAIN tableQueryBuilderFields = {}
    /\ \A c \in Returned :
        LET parts == MergedParts(c.searchIndex) IN
        /\ Cardinality(DOMAIN c.config.fields) = SumOfSizes(parts)
        /\ \A i \in 1..Len(parts) : \A k \in DOMAIN parts[i] :
            /\ k \in DOMAIN c.config.fields
            /\ c.config.fields[k] = parts[i][k]

C15_Witness ==
    /\ \E c \in Returned :
        /\ c.searchIndex = "TABLE"
        /\ Cardinality(DOMAIN c.config.fields) = 9
    /\ \E c \in Returned :
        /\ c.searchIndex = "PIPELINE"
        /\ Cardinality(DOMAIN c.config.fields) = 5

LeafTypes == {"boolean", "text", "select"}

HasSubfields(descriptor) ==
    /\ "subfields" \in DOMAIN descriptor
    /\ DOMAIN descriptor.subfields # {}

\* C16: in every returned field mapping a descriptor, at the top level or
\* under a group, has a non-empty `subfields` mapping exactly when its type
\* is '!struct'; a descriptor of type boolean, text or select has none.
C16_SubfieldsIffStruct ==
    \A c \in Returned : \A k \in DOMAIN c.config.fields :
        LET d == c.config.fields[k] IN
        /\ HasSubfields(d) <=> d.type = "!struct"
        /\ d.type \in LeafTypes => "subfields" \notin DOMAIN d
        /\ d.type \in LeafTypes \cup {"!struct"}
        /\ HasSubfields(d) =>
            \A f \in DOMAIN d.subfields :
                /\ HasSubfields(d.subfields[f])
                        <=> d.subfields[f].type = "!struct"
                /\ d.subfields[f].type \in LeafTypes
                        => "subfields" \notin DOMAIN d.subfields[f]

C16_Witness ==
    \E c \in Returned :
        /\ c.searchIndex = "TABLE"
        /\ HasSubfields(c.config.fields["columns"])
        /\ c.config.fields["columns"].type = "!struct"
        /\ c.config.fields["name"].type = "select"
        /\ ~HasSubfields(c.config.fields["name"])

TextWidgetIsLikePair(config) ==
    \A ty \in {"multiselect", "select"} :
        /\ "text" \in DOMAIN config.types[ty].widgets
        /\ config.types[ty].widgets.text.operators = <<"like", "not_like">>

CarriesWildcard(config, op) ==
    /\ "elasticSearchQueryType" \in DOMAIN config.operators[op]
    /\ config.operators[op].elasticSearchQueryType = "wildcard"

\* C17 as stated: for the select and multiselect types the text widget's
\* operators are exactly like and not_like, and both operators `like` and
\* `not_like` carry elasticSearchQueryType = 'wildcard'.
C17_LikePairCarriesWildcard ==
    \A c \in Returned :
        /\ TextWidgetIsLikePair(c.config)
        /\ CarriesWildcard(c.config, "like")
        /\ CarriesWildcard(c.config, "not_like")

\* C17: for the select and multiselect types the text widget's operators
\* are exactly like and not_like; the operator `like` carries
\* elasticSearchQueryType = 'wildcard', and the operator `not_like` is the
\* library's own, with no query type set by the overrides.
C17_LikeCarriesWildcard ==
    \A c \in Returned :
        /\ TextWidgetIsLikePair(c.config)
        /\ CarriesWildcard(c.config, "like")
        /\ c.config.operators.not_like = BaseConfig.operators.not_like
        /\ \A op \in (DOMAIN c.config.operators) \ {"like"} :
                c.config.operators[op] = BaseConfig.operators[op]

C17_Witness ==
    \E c \in Returned :
        /\ c.searchIndex = "TABLE"
        /\ CarriesWildcard(c.config, "like")
        /\ BaseConfig.operators.like.elasticSearchQueryType = "regexp"
        /\ ~CarriesWildcard(c.config, "not_like")

-----------------------------------------------------------------------------
(* The initial filter tree *)

ChildKeys(node) == DOMAIN node.children1

IsEmptyRule(node) ==
    /\ node.type = "rule"
    /\ node.properties.field = Null
    /\ node.properties.operator = Null
    /\ node.properties.value = <<>>
    /\ node.properties.valueSrc = <<>>

\* C18 as stated: emptyJsonTree is one group that directly contains one
\* empty rule, and the group and the rule carry distinct generated
\* identifiers.
C18_GroupDirectlyContainsRule ==
    /\ emptyJsonTree.type = "group"
    /\ Cardinality(ChildKeys(emptyJsonTree)) = 1
    /\ \A k \in ChildKeys(emptyJsonTree) :
        /\ IsEmptyRule(emptyJsonTree.children1[k])
        /\ k # emptyJsonTree.id

\* C18: emptyJsonTree is a group whose only child is a group whose only
\* child is an empty rule (field and operator null, value and valueSrc
\* empty); the root carries a generated id, each child is keyed by a
\* generated identifier, and the three identifiers are pairwise distinct.
\* No call of getQbConfigs changes the tree.
C18_GroupContainsGroupContainsRule ==
    /\ [](/\ emptyJsonTree.type = "group"
          /\ emptyJsonTree.id \in UuidPool
          /\ Cardinality(ChildKeys(emptyJsonTree)) = 1
          /\ \A g \in ChildKeys(emptyJsonTree) :
                LET group == emptyJsonTree.children1[g] IN
                /\ group.type = "group"
                /\ g # emptyJsonTree.id
                /\ Cardinality(ChildKeys(group)) = 1
                /\ \A r \in ChildKeys(group) :
                    /\ IsEmptyRule(group.children1[r])
                    /\ r # g
                    /\ r # emptyJsonTree.id)
    /\ [][emptyJsonTree' = emptyJsonTree]_vars

C18_Witness ==
    /\ emptyJsonTree.id = "u2"
    /\ ChildKeys(emptyJsonTree) = {"u3"}
    /\ ChildKeys(emptyJsonTree.children1["u3"]) = {"u1"}
    /\ Len(qbCalls) = 2

-----------------------------------------------------------------------------
(* Properties of the autocomplete adapter (checked under SpecAuto) *)

Resolved == lastResolved # Null

ValuesOf(result) == { result.values[i].value : i \in 1..Len(result.values) }
TextsOf(resp) == { resp[i].text : i \in 1..Len(resp) }

\* C3: given a response whose elements have duplicate texts, the promise
\* resolves with exactly the distinct texts as {value, title} pairs, each
\* title equal to its value, and no two returned pairs have the same value.
C3_DistinctTextsOnly ==
    Resolved =>
        LET values == lastResolved.result.values IN
        /\ ValuesOf(lastResolved.result) = TextsOf(lastResolved.resp)
        /\ \A i \in 1..Len(values) : values[i].title = values[i].value
        /\ \A i, j \in 1..Len(values) :
                values[i].value = values[j].value => i = j

\* C4: an invocation with empty input (the empty string or undefined)
\* dispatches a request with query "*"; with non-empty input the query is
\* the input text.
C4_EmptyInputQueriesWildcard ==
    \A k \in 1..Len(requests) :
        LET search == invocations[k].search IN
        IF search = Undefined \/ search = Str("")
        THEN requests[k].query = "*"
        ELSE search # Null => requests[k].query = search.s

\* C8: every resolution has hasMore = FALSE, whatever the size of the
\* response, the empty response included.
C8_HasMoreAlwaysFalse ==
    Resolved => lastResolved.result.hasMore = FALSE

C8_Witness ==
    /\ Resolved
    /\ Len(lastResolved.resp) = MaxResp
    /\ \E k \in 1..Len(invocations) : invocations[k].promise = "pending"

\* C9: each invocation issues exactly one suggestQuery request (n
\* invocations, n requests, also when the query repeats and whatever the
\* promises then do), and each request carries the adapter's searchIndex,
\* field = suggestField and fetchSource = FALSE.
C9_OneRequestPerInvocation ==
    /\ Len(requests) = Len(invocations)
    /\ \A k \in 1..Len(requests) :
        /\ requests[k].searchIndex = adapter.searchIndex
        /\ requests[k].field = adapter.suggestField
        /\ requests[k].fetchSource = FALSE

C9_Witness ==
    /\ Len(invocations) = 2
    /\ invocations[1].search = invocations[2].search
    /\ invocations[1].promise = "resolved"
    /\ invocations[2].promise = "rejected"
    /\ Len(requests) = 2
    /\ requests[1] = requests[2]

\* C10: the returned list has at most as many entries as the response, and
\* every entry is {value: t, title: t} with t the text of some element of
\* the response.
C10_ValuesComeFromResponse ==
    Resolved =>
        LET values == lastResolved.result.values IN
        /\ Len(values) <= Len(lastResolved.resp)
        /\ \A i \in 1..Len(values) :
            /\ DOMAIN values[i] = {"value", "title"}
            /\ values[i].title = values[i].value
            /\ values[i].value \in TextsOf(lastResolved.resp)

C10_Witness ==
    /\ Resolved
    /\ Len(lastResolved.resp) = 2
    /\ lastResolved.resp[1].text # lastResolved.resp[2].text
    /\ Len(lastResolved.result.values) = 2

\* the invocations whose request has met the given fate
WithRequest(fate) ==
    { k \in 1..Len(invocations) : invocations[k].request = fate }

\* C11: when the suggestQuery request of an invocation fails, the
\* invocation's promise is rejected: that step delivers no value list (not
\* even an empty one), the promise never resolves afterwards, and the
\* adapter issues no further request for the invocation.
C11_FailureRejectsWithoutRetry ==
    /\ [](\A k \in WithRequest("failed") : invocations[k].promise = "rejected")
    /\ [](Len(requests) = Len(invocations))
    /\ [][\A k \in 1..Len(invocations) :
            (invocations[k].request = "sent" /\ invocations'[k].request = "failed")
                => /\ invocations'[k].promise = "rejected"
                   /\ lastResolved' = lastResolved
                   /\ requests' = requests]_vars
    /\ [][\A k \in 1..Len(invocations) :
            invocations[k].promise = "rejected"
                => invocations'[k].promise = "rejected"]_vars

C11_Witness ==
    /\ Len(invocations) = 2
    /\ invocations[1].request = "failed"
    /\ invocations[1].promise = "rejected"
    /\ invocations[2].promise = "resolved"
    /\ Len(requests) = 2

\* C12: two invocations issued in the order A, B are independent: issuing B
\* leaves A's request and promise as they are (no cancellation), a
\* completion changes only its own invocation, in either order, and every
\* request the service answers resolves the promise of its own invocation.
C12_InvocationsIndependent ==
    /\ [](\A k \in 1..Len(invocations) :
            invocations[k].request = "answered"
                <=> invocations[k].promise = "resolved")
    /\ [](Resolved => lastResolved.invocation \in WithRequest("answered"))
    /\ [][Len(invocations') > Len(invocations)
            => \A k \in 1..Len(invocations) : invocations'[k] = invocations[k]]_vars
    /\ [][\A k \in 1..Len(invocations) :
            (invocations[k].promise = "pending"
                /\ invocations'[k].promise = "resolved")
                => /\ lastResolved'.invocation = k
                   /\ \A j \in 1..Len(invocations) :
                        j # k => invocations'[j] = invocations[j]]_vars

\* A (invocation 1) resolves after B (invocation 2) has resolved
C12_Witness ==
    /\ Len(invocations) = 2
    /\ invocations[1].promise = "resolved"
    /\ invocations[2].promise = "resolved"
    /\ lastResolved.invocation = 1
    /\ Len(lastResolved.resp) > 0

-----------------------------------------------------------------------------
(* Side effects and sharing *)

\* C13: getQbConfigs has no side effects: after any sequence of calls the
\* objects of the three field mappings and of initialConfigWithoutFields
\* are unwritten, no suggestQuery request has been issued, results already
\* returned are untouched, and the result for a category is the same on
\* every call whatever calls were made before it.
C13_GetQbConfigsHasNoSideEffects ==
    /\ [](heap = {})
    /\ [](requests = <<>> /\ invocations = <<>>)
    /\ [](\A c \in Returned : c.config = getQbConfigs(c.searchIndex))
    /\ [](\A c, d \in Returned :
            c.searchIndex = d.searchIndex => c.config = d.config)
    /\ [][/\ initialConfigWithoutFields' = initialConfigWithoutFields
          /\ \A i \in 1..Len(qbCalls) :
                /\ qbCalls'[i] = qbCalls[i]
                /\ handles'[i] = handles[i]]_vars

C13_Witness ==
    /\ Len(qbCalls) = 2
    /\ qbCalls[1].searchIndex = "TABLE"
    /\ qbCalls[2].searchIndex = "TOPIC"
    /\ qbCalls[1].config # qbCalls[2].config

\* C14: configurations returned by two calls share no mutable state: a
\* change made to anything reachable from one (a field descriptor under
\* `fields`, an entry under `types`, ...) is not observable through another.
C14_NoSharedMutableState ==
    [][\A n \in 1..Len(handles) : \A target \in Targets(n) :
            Write(n, target) =>
                \A m \in 1..Len(handles) :
                    m # n => ViewOf(m)' = ViewOf(m)]_vars

-----------------------------------------------------------------------------
(* Properties of the glossary forms (checked under SpecForm) *)

SaveClicked == history'.steps # history.steps /\ history'.last.kind = "handleSave"

Changed(eleName) ==
    /\ history'.steps # history.steps
    /\ history'.last.kind = "handleValidation"
    /\ history'.last.eleName = eleName

OnSaveInvoked == onSaveCalls' # onSaveCalls

\* C19: in both forms, for any sequence of name edits, reviewer changes and
\* save clicks, onSave is invoked only by a save click made while the name
\* holds a character that is not white space, once, with name and
\* displayName equal to the name state; a save click made with a blank
\* name sets showErrorMsg.name and does not invoke onSave.
C19_OnSaveOnlyWithNonBlankName ==
    /\ [](\A i \in 1..Len(onSaveCalls) :
            /\ ~IsBlank(onSaveCalls[i].name)
            /\ onSaveCalls[i].displayName = onSaveCalls[i].name)
    /\ [][OnSaveInvoked =>
            /\ SaveClicked
            /\ ~IsBlank(form.name)
            /\ Len(onSaveCalls') = Len(onSaveCalls) + 1
            /\ SubSeq(onSaveCalls', 1, Len(onSaveCalls)) = onSaveCalls
            /\ onSaveCalls'[Len(onSaveCalls')].name = form.name
            /\ onSaveCalls'[Len(onSaveCalls')].displayName = form.name]_vars
    /\ [][SaveClicked /\ IsBlank(form.name) =>
            /\ form'.showErrorMsg.name
            /\ ~OnSaveInvoked]_vars
    /\ [][SaveClicked /\ ~IsBlank(form.name) =>
            /\ ~form'.showErrorMsg.name
            /\ OnSaveInvoked]_vars

C19_Witness ==
    /\ IsTerm(form)
    /\ Len(onSaveCalls) = 1
    /\ onSaveCalls[1].name = <<"a", " ">>
    /\ onSaveCalls[1].displayName = <<"a", " ">>
    /\ onSaveCalls[1].reviewers = <<[id |-> "u2", type |-> "user"]>>
    /\ history.last.kind = "handleSave"

\* what a change event may and may not do, whatever allowAccess is
ChangeEventsRespectAccess ==
    /\ [][Changed("name") /\ form.allowAccess =>
            /\ form'.name = history'.last.value
            /\ ~form'.showErrorMsg.name]_vars
    /\ [][(Changed("name") \/ Changed("synonyms")) /\ ~form.allowAccess =>
            form' = form]_vars
    /\ [][Changed("synonyms") /\ form.allowAccess =>
            /\ form'.synonyms = history'.last.value
            /\ form'.name = form.name
            /\ form'.showErrorMsg = form.showErrorMsg]_vars

\* C20 as stated: showErrorMsg.name is true only if the most recent save
\* click was made with a blank name and no name change event has been
\* handled since; a name change handled with allowAccess true sets the name
\* and clears the flag; a change handled with allowAccess false leaves
\* name, synonyms and showErrorMsg unchanged.
C20_ErrorOnlyUntilNameChangeEvent ==
    /\ [](form.showErrorMsg.name =>
            /\ history.lastSave = "blank"
            /\ ~history.nameEventSince)
    /\ ChangeEventsRespectAccess

\* C20: showErrorMsg.name is true only if the most recent save click was
\* made with a blank name and no name change event has been handled with
\* allowAccess true since; a name change handled with allowAccess true sets
\* the name and clears the flag; a change handled with allowAccess false
\* leaves name, synonyms and showErrorMsg unchanged, so the flag of an
\* earlier blank save stays up through it.
C20_ErrorOnlyUntilNameEdit ==
    /\ [](form.showErrorMsg.name =>
            /\ history.lastSave = "blank"
            /\ ~history.nameEditSince)
    /\ [](history.lastSave = "blank" /\ ~history.nameEditSince =>
            form.showErrorMsg.name)
    /\ ChangeEventsRespectAccess

C20_Witness ==
    /\ form.showErrorMsg.name
    /\ history.lastSave = "blank"
    /\ history.last.kind = "handleValidation"
    /\ history.last.eleName = "name"
    /\ history.last.value = <<"a", " ">>
    /\ ~history.last.allowAccess
    /\ form.name = <<>>

-----------------------------------------------------------------------------
(* Properties of the table profiler *)

Pending == { i \in 1..Len(testCalls) : testCalls[i].state = "pending" }

\* the call whose request is answered, or fails, in this step
Settling(i, outcome) ==
    /\ i \in Pending
    /\ testCalls'[i].state = outcome

\* the statuses of the tests, '' for a test without a result
RECURSIVE StatusesOf(_)
StatusesOf(tests) ==
    IF tests = <<>> THEN <<>>
    ELSE <<IF "testCaseResult" \in DOMAIN Head(tests)
           THEN Head(tests).testCaseResult.testCaseStatus
           ELSE "">> \o StatusesOf(Tail(tests))

\* whether a test is a test of the table the call was made for
OfTable(test, call) ==
    /\ call.table # Undefined
    /\ test.entityFQN = call.table.fullyQualifiedName

\* C21 (checked under SpecTests): when fetchAllTests requests overlap, once
\* all of them have settled successfully tableTests and columnTests hold
\* the result of the most recently issued request, and isTestCaseLoading is
\* true whenever at least one request is still in flight.
C21_LatestRequestWins ==
    /\ (testCalls # <<>> /\ \A i \in 1..Len(testCalls) :
                                testCalls[i].state = "resolved") =>
            LET last == testCalls[Len(testCalls)] IN
            /\ profiler.tableTests.tests =
                    SelectSeq(last.data, LAMBDA test : OfTable(test, last))
            /\ profiler.columnTests =
                    SelectSeq(last.data, LAMBDA test : ~OfTable(test, last))
    /\ Pending # {} => profiler.isTestCaseLoading

\* C22 (checked under SpecTests): a fetchAllTests call that succeeds replaces
\* the state so that every returned test is in exactly one of
\* tableTests.tests (its entityFQN is the fullyQualifiedName of the table the
\* call was made for) or columnTests (otherwise), in the order returned,
\* with tableTests.results being a copy of INITIAL_TEST_RESULT_SUMMARY that
\* updateTestResults was applied to once for each table test, in order, and
\* for no other test; a call that fails leaves tableTests and columnTests as they
\* were and shows one error toast; either way isTestCaseLoading becomes false.
C22_FetchReplacesOrLeavesTests ==
    /\ [][\A i \in 1..Len(testCalls) : Settling(i, "resolved") =>
            LET call == testCalls[i]
                data == testCalls'[i].data
                ofTable == SelectSeq(data, LAMBDA test : OfTable(test, call))
                others == SelectSeq(data, LAMBDA test : ~OfTable(test, call))
            IN
            /\ profiler'.tableTests.tests = ofTable
            /\ profiler'.columnTests = others
            /\ Len(ofTable) + Len(others) = Len(data)
            /\ profiler'.tableTests.results =
                    [of |-> "INITIAL_TEST_RESULT_SUMMARY",
                     updates |-> StatusesOf(ofTable)]
            /\ ~profiler'.isTestCaseLoading
            /\ toasts' = toasts]_vars
    /\ [][\A i \in 1..Len(testCalls) : Settling(i, "rejected") =>
            /\ profiler'.tableTests = profiler.tableTests
            /\ profiler'.columnTests = profiler.columnTests
            /\ toasts' = toasts + 1
            /\ ~profiler'.isTestCaseLoading]_vars

C22_Witness ==
    /\ Len(testCalls) = 2
    /\ testCalls[1].state = "rejected"
    /\ testCalls[2].state = "resolved"
    /\ toasts = 1
    /\ profiler.tableTests.tests = <<tableSuccess, tableNoResult>>
    /\ profiler.columnTests = <<columnFailed, columnSuccess>>
    /\ profiler.tableTests.results.updates = <<"Success", "">>
    /\ ~profiler.isTestCaseLoading

\* C23 (checked under SpecProfiler): as long as the user has had none of the
\* permissions ViewAll, ViewBasic and ViewTests, no getListTestCase request
\* has been issued and activeTab is SUMMARY, whatever tables were loaded and
\* whatever the user did.
C23_NoTestPermissionNoRequest ==
    ~everViewTest =>
        /\ testCalls = <<>>
        /\ profiler.activeTab = SUMMARY
        /\ ~profiler.isTestCaseLoading

C23_Witness ==
    /\ ~everViewTest
    /\ profiler.permissions = Permissions({"ViewDataProfile", "EditTests"})
    /\ profiler.table # Undefined
    /\ profiler.settingModalVisible
    /\ testCalls = <<>>

\* the tests getFilterTestCase chooses from
Scope ==
    IF profiler.selectedTestType = "Table" THEN profiler.tableTests.tests
    ELSE IF profiler.selectedTestType = "Column" THEN profiler.columnTests
    ELSE profiler.tableTests.tests \o profiler.columnTests

\* the positions of Scope whose test passes the status filter
Passing ==
    { i \in 1..Len(Scope) :
        \/ profiler.selectedTestCaseStatus = ""
        \/ /\ "testCaseResult" \in DOMAIN Scope[i]
           /\ Scope[i].testCaseResult.testCaseStatus
                = profiler.selectedTestCaseStatus }

\* C24 (checked under SpecFilter): getFilterTestCase returns exactly the
\* tests of the selected scope (the table tests for Table, the column tests
\* for Column, the table tests followed by the column tests for any other
\* value) whose result has the selected status, or all of them when the
\* selected status is '', in the order of the scope.
C24_FilterReturnsScopeByStatus ==
    LET result == getFilterTestCase(profiler) IN
    /\ Len(result) = Cardinality(Passing)
    /\ \A i \in Passing :
        LET rank == Cardinality({ k \in Passing : k <= i }) IN
        /\ rank <= Len(result)
        /\ result[rank] = Scope[i]

C24_Witness ==
    /\ profiler.selectedTestType = "Other"
    /\ profiler.selectedTestCaseStatus = "Failed"
    /\ profiler.tableTests.tests = <<tableFailed>>
    /\ profiler.columnTests = <<columnSuccess>>
    /\ getFilterTestCase(profiler) = <<tableFailed>>

-----------------------------------------------------------------------------
(* Properties of the reference rows of AddGlossaryTerm *)

\* the form went through an event of this kind in this step
Handled(kind) == history'.steps # history.steps /\ history'.last.kind = kind

\* the rows with a name and an endpoint, by position
Complete(rows) ==
    { i \in 1..Len(rows) : rows[i].name # <<>> /\ rows[i].endpoint # <<>> }

====
